---- MODULE Spec2Model ----
(***************************************************************************)
(* The native shell of the CSMS mobile client (src/frontend/App.js): the   *)
(* toast notifier, the exit-confirmation machine of the hardware back      *)
(* button, the download pipeline, the navigation interceptor, the bridge   *)
(* router, the permission gate and the loading and error overlays of the   *)
(* embedded WebView; and the project form of the native screens            *)
(* (src/frontend/screens/ProjectFormScreen.js).  App.js holds two          *)
(* revisions of the shell; `revision` selects the one that runs (1: lines  *)
(* 1-212, 2: lines 214-601).                                               *)
(*                                                                         *)
(* Time is counted in units of 1000 ms.  A pending setTimeout is a record  *)
(* with the time it has left; the asynchronous platform calls (fetch,      *)
(* media library, share dialog, pickers, permission prompts) complete at    *)
(* any moment.  The bridge router (handleMessage) and the permission gate  *)
(* (requestPermissions) exist in revision 2 only.                          *)
(***************************************************************************)
EXTENDS Naturals, Integers, Sequences, FiniteSets, TLC

VARIABLES
    revision,        \* which revision of App.js is running
    batchedUpdates,  \* whether React batches the state updates of a native event
    toast,           \* useState: { visible, message, type }
    timers,          \* the pending setTimeout callbacks
    lastShow,        \* the most recent showToast call and what is left of its duration
    backPressCount,  \* useState: 0 (Idle) or 1 (Armed)
    backPressTimer,  \* useRef: 0 (null) or the handle of the latest disarm timer
    exitCalls,       \* number of BackHandler.exitApp() calls
    sincePress,      \* time since the last hardware back press, capped at NoPress
    downloading,     \* useState: the busy overlay flag
    jobs,            \* the handleDownload invocations, in start order
    nav,             \* the last navigation request and the interceptor's answer
    platform,        \* Platform.OS
    webViewRef,      \* useRef: whether webViewRef.current holds the mounted WebView
    msgs,            \* the handleMessage invocations, in arrival order
    injected,        \* the messages posted into the page by injectJavaScript
    perm,            \* the requestPermissions run of the mount effect
    handled,         \* what the hardwareBackPress listener returned last
    loading,         \* useState: the loading overlay flag
    error,           \* useState: the load-error overlay flag
    form             \* ProjectFormScreen: its state and its handleSave run

vars == <<revision, batchedUpdates, toast, timers, lastShow, backPressCount,
          backPressTimer, exitCalls, sincePress, downloading, jobs, nav,
          platform, webViewRef, msgs, injected, perm, handled, loading, error,
          form>>

envVars == <<revision, batchedUpdates, platform, webViewRef>>

bridgeVars == <<msgs, injected>>

overlayVars == <<loading, error>>

toastVars == <<toast, timers, lastShow>>

backVars == <<backPressCount, backPressTimer, exitCalls, sincePress, handled>>

dlVars == <<downloading, jobs>>

-----------------------------------------------------------------------------
(* Bounds of the model *)

MaxJobs == 2

MaxFrags == 3

MaxMsgs == 2

-----------------------------------------------------------------------------
(* Program constants, in units of 1000 ms *)

DefaultDuration == 3

BackToastDuration == 2

ReadyDuration == 2

Window == 2

NoPress == Window + 1

-----------------------------------------------------------------------------
(* URL strings are sequences of characters *)

WEB_APP_URL == <<"h","t","t","p","s",":","/","/","a","d","e","-","b","a","s","i","r","w","f","r","d","-","c","s","m","s","-","b","a","c","k","e","n","d",".","h","f",".","s","p","a","c","e">>

ProjectsSeg == <<"/","p","r","o","j","e","c","t","s","/">>

ReportMark == <<"/","r","e","p","o","r","t">>

BlobScheme == <<"b","l","o","b",":">>

DownloadMark == <<"d","o","w","n","l","o","a","d","=">>

PdfExt == <<".","p","d","f">>

AboutScheme == <<"a","b","o","u","t",":">>

AboutBlank == <<"a","b","o","u","t",":","b","l","a","n","k">>

HttpScheme == <<"h","t","t","p",":","/","/">>

HttpsScheme == <<"h","t","t","p","s",":","/","/">>

\* String.prototype.startsWith
startsWith(s, p) ==
    /\ Len(p) <= Len(s)
    /\ \A i \in 1..Len(p) : s[i] = p[i]

\* String.prototype.endsWith
endsWith(s, p) ==
    /\ Len(p) <= Len(s)
    /\ \A i \in 1..Len(p) : s[Len(s) - Len(p) + i] = p[i]

\* String.prototype.includes
includes(s, p) ==
    \E k \in 0..(Len(s) - Len(p)) : \A i \in 1..Len(p) : s[k + i] = p[i]

-----------------------------------------------------------------------------
(* Toast notifier *)

HiddenToast == [visible |-> FALSE, message |-> "", type |-> "info"]

ToastOf(message, type) == [visible |-> TRUE, message |-> message, type |-> type]

\* setTimeout(callback, delay): one more pending timer.  id is the handle when
\* the caller keeps it and 0 when the handle is dropped; the timers whose
\* handle is dropped all run the same idempotent callback, so two of them that
\* are due at the same time are one element of the set.
setTimeout(ts, kind, delay, id) ==
    ts \cup {[kind |-> kind, left |-> delay, id |-> id]}

\* clearTimeout(handle): a handle that is null, fired or cleared is a no-op
clearTimeout(ts, id) ==
    IF id = 0 THEN ts ELSE {t \in ts : t.id # id}

\* The toast state a handler works on, and its assignment at the handler's end
UI == [toast |-> toast, timers |-> timers, lastShow |-> lastShow]

SetUI(u) ==
    /\ toast' = u.toast
    /\ timers' = u.timers
    /\ lastShow' = u.lastShow

\* Mutant: a toast that is showing is not replaced by a later request
showToastIfHidden(u, message, type, duration) ==
    [toast |-> IF u.toast.visible THEN u.toast ELSE ToastOf(message, type),
     timers |-> setTimeout(u.timers, "hideToast", duration, 0),
     lastShow |-> [message |-> message, type |-> type, left |-> duration]]

\* Mutant: the toast is shown without the timer that clears it
showToastNoTimer(u, message, type, duration) ==
    [toast |-> ToastOf(message, type),
     timers |-> u.timers,
     lastShow |-> [message |-> message, type |-> type, left |-> duration]]

\* showToast: setToast, then setTimeout of the clear; no earlier timer is cancelled
showToast(u, message, type, duration) ==
    [toast |-> ToastOf(message, type),
     timers |-> setTimeout(u.timers, "hideToast", duration, 0),
     lastShow |-> [message |-> message, type |-> type, left |-> duration]]

\* The timers of a kind that are due now
Due(kind) == {t \in timers : t.kind = kind /\ t.left = 0}

Running == exitCalls = 0

\* The callback of showToast's timer
HideToastTimer ==
    /\ Running
    /\ Due("hideToast") # {}
    /\ toast' = HiddenToast
    /\ timers' = timers \ Due("hideToast")
    /\ UNCHANGED <<envVars, overlayVars, form, bridgeVars, perm, lastShow, backVars, dlVars, nav>>

Max(a, b) == IF a >= b THEN a ELSE b

Min(a, b) == IF a <= b THEN a ELSE b

\* 1000 ms pass; a timer that is due runs before time passes
Tick ==
    /\ Running
    /\ Due("hideToast") = {} /\ Due("disarm") = {}
    /\ timers # {} \/ sincePress < NoPress
    /\ timers' = {[t EXCEPT !.left = @ - 1] : t \in timers}
    /\ lastShow' = [lastShow EXCEPT !.left = Max(@ - 1, 0)]
    /\ sincePress' = Min(sincePress + 1, NoPress)
    /\ UNCHANGED <<envVars, overlayVars, form, bridgeVars, perm, toast, backPressCount, backPressTimer,
                   exitCalls, handled, dlVars, nav>>

-----------------------------------------------------------------------------
(* Exit confirmation: the hardwareBackPress effect, deps [backPressCount] *)

\* A timer handle that nothing refers to
NewHandle ==
    CHOOSE h \in 1..(Cardinality(timers) + 2) :
        /\ h # backPressTimer
        /\ \A t \in timers : t.id # h

\* The handle the effect's cleanup passes to clearTimeout when backPressCount
\* has changed in a handler that created the timer `created`.  With batched
\* updates the re-render follows the handler, so the ref already holds the new
\* handle; without batching setBackPressCount renders at once and the cleanup
\* runs inside showToast's setToast, before the ref is assigned.
CleanupHandle(created) == IF batchedUpdates THEN created ELSE backPressTimer

\* Mutant: the listener is registered once and keeps seeing backPressCount 0
IsIdleStale(count) == TRUE

\* The listener's test of the backPressCount it was registered with
IsIdle(count) == count = 0

\* Mutant: the listener is registered wherever the permission gate runs
HasBackHandlerOffWeb == platform # "web"

\* Platform.OS === 'android': the effect registers the listener
HasBackHandler == platform = "android"

\* The listener registered by the effect; React re-registers it with the new
\* backPressCount in the same step.  Both branches return true.
BackPress ==
    /\ Running
    /\ revision = 2
    /\ HasBackHandler
    /\ sincePress' = 0
    /\ handled' = "true"
    /\ IF IsIdle(backPressCount)
       THEN LET h == NewHandle
                shown == showToast(UI, "Press back again to exit", "info", BackToastDuration)
                armed == setTimeout(shown.timers, "disarm", Window, h)
            IN  /\ backPressCount' = 1
                /\ backPressTimer' = h
                /\ SetUI([shown EXCEPT !.timers = clearTimeout(armed, CleanupHandle(h))])
                /\ UNCHANGED exitCalls
       ELSE /\ exitCalls' = exitCalls + 1
            /\ UNCHANGED <<backPressCount, backPressTimer, toastVars>>
    /\ UNCHANGED <<envVars, overlayVars, form, bridgeVars, perm, dlVars, nav>>

\* The callback of the disarm timer: setBackPressCount(0); the effect's
\* cleanup then clears the handle in the ref, which is this fired timer.
\* Timers due at the same time run in creation order, and every toast timer
\* due together with a disarm timer was created before it.
DisarmTimer ==
    /\ Running
    /\ Due("hideToast") = {}
    /\ Due("disarm") # {}
    /\ backPressCount' = 0
    /\ timers' = clearTimeout(timers \ Due("disarm"), backPressTimer)
    /\ UNCHANGED <<envVars, overlayVars, form, bridgeVars, perm, toast, lastShow, backPressTimer,
                   exitCalls, sincePress, handled, dlVars, nav>>

-----------------------------------------------------------------------------
(* Download pipeline: handleDownload, one record of `jobs` per invocation *)

InFlight(j) == jobs[j].pc # "done"

AnyInFlight == \E j \in 1..Len(jobs) : InFlight(j)

\* Mutant: handleDownload without its setDownloading(true)
StartBusyMissing == downloading

\* setDownloading(true) at the start of the try block
StartBusy == TRUE

\* Mutant: setDownloading(false) at the end of the try block, not in finally
FinallyBusyInTry(outcome) == IF outcome = "threw" THEN downloading ELSE FALSE

\* setDownloading(false) in the finally block, whatever path was taken
FinallyBusy(outcome) == FALSE

\* String.prototype.split('/'), last element: the text after the last '/'
RECURSIVE LastPart(_)
LastPart(s) ==
    IF s = <<>> \/ s[Len(s)] = "/" THEN <<>>
    ELSE LastPart(SubSeq(s, 1, Len(s) - 1)) \o <<s[Len(s)]>>

\* String.prototype.slice(from, to) for 0 <= from <= to <= length
slice(s, from, to) == SubSeq(s, from + 1, to)

\* new Date().toISOString() at the time of the download
Now == <<"2","0","2","6","-","0","3","-","0","9","T","0","8",":","1","5",":","0","0",".","0","0","0","Z">>

ReportName == <<"C","S","M","S","_","R","e","p","o","r","t">>

DefaultName == <<"r","e","p","o","r","t">> \o PdfExt

\* The file name under FileSystem.cacheDirectory.  Revision 1 takes the text
\* after the last '/' of the URL when it holds a '.'; revision 2 splits the
\* URL, leaves the parts unused and always builds the dated name.
Filename(url) ==
    IF revision = 2
    THEN ReportName \o <<"_">> \o slice(Now, 0, 10) \o PdfExt
    ELSE LET last == LastPart(url)
             name == IF last = <<>> THEN DefaultName ELSE last
         IN  IF includes(name, <<".">>) THEN name ELSE ReportName \o PdfExt

\* Mutant: any response counts as a success, whatever its status
IsSuccessAnyStatus(status) == status # "throw"

\* downloadResult.status === 200
IsSuccess(status) == status = "200"

\* handleDownload up to its first await (FileSystem.downloadAsync).  Revision 2
\* shows the 'Downloading' toast; revision 1 shows nothing.  A job records the
\* await it is suspended at (pc), the file name it downloads to, the settled
\* downloadResult (status), whether MediaLibrary.createAssetAsync was called
\* and how the persistence ended (persist), the number of Sharing.shareAsync
\* calls (shares), the terminal toasts or alerts it has emitted, the path it
\* returned by (outcome), and whether another invocation was in flight during
\* this one (overlapped).
handleDownload(url) ==
    /\ Len(jobs) < MaxJobs
    /\ downloading' = StartBusy
    /\ jobs' = Append([j \in 1..Len(jobs) |->
                          IF InFlight(j) THEN [jobs[j] EXCEPT !.overlapped = TRUE]
                          ELSE jobs[j]],
                      [url |-> url, filename |-> Filename(url), pc |-> "fetch",
                       status |-> "none", persist |-> "none", shares |-> 0,
                       overlapped |-> AnyInFlight, emitted |-> <<>>,
                       outcome |-> "none"])
    /\ IF revision = 2
       THEN SetUI(showToast(UI, "Downloading report...", "info", DefaultDuration))
       ELSE UNCHANGED toastVars

\* The job calls the platform function `pc` and awaits it.  Entering the
\* share check from a persistence call is the inner catch of revision 2.
Enter(job, pc) ==
    [job EXCEPT !.pc = pc,
                !.persist = CASE pc = "createAsset" -> "pending"
                              [] pc = "shareAvail" /\ @ = "pending" -> "failed"
                              [] OTHER -> @,
                !.shares = IF pc = "share" THEN @ + 1 ELSE @]

\* The job of the sequence js moves to its next await
GotoIn(js, j, pc) ==
    /\ jobs' = [js EXCEPT ![j] = Enter(@, pc)]
    /\ UNCHANGED <<downloading, toastVars>>

Goto(j, pc) == GotoIn(jobs, j, pc)

\* The handler returns through its finally block
ReturnIn(js, j, outcome, notes) ==
    /\ jobs' = [js EXCEPT ![j] =
                   [@ EXCEPT !.pc = "done", !.outcome = outcome,
                             !.persist = IF outcome = "persisted" THEN "ok" ELSE @,
                             !.emitted = @ \o notes]]
    /\ downloading' = FinallyBusy(outcome)

Return(j, outcome, notes) == ReturnIn(jobs, j, outcome, notes)

\* A terminal toast (revision 2) or Alert.alert (revision 1), then finally
NotifyIn(js, j, outcome, message, type, title) ==
    IF revision = 2
    THEN /\ SetUI(showToast(UI, message, type, DefaultDuration))
         /\ ReturnIn(js, j, outcome, <<type>>)
    ELSE /\ UNCHANGED toastVars
         /\ ReturnIn(js, j, outcome, <<title>>)

Notify(j, outcome, message, type, title) ==
    NotifyIn(jobs, j, outcome, message, type, title)

\* Mutant: an exception sends the handler back to the fetch
CatchRetry(j) == Goto(j, "fetch")

\* The outer catch block
CatchIn(js, j) == NotifyIn(js, j, "threw", "Download error", "error", "Download Error")

Catch(j) == CatchIn(jobs, j)

Awaiting(j, pc) ==
    /\ Running
    /\ j \in 1..Len(jobs)
    /\ jobs[j].pc = pc

\* Mutant: revision 2 goes to the share dialog without persisting, as revision 1
AfterFetchShare == "shareAvail"

\* What follows a successful fetch: the media library in revision 2, the share
\* dialog in revision 1
AfterFetch == IF revision = 2 THEN "createAsset" ELSE "shareAvail"

\* FileSystem.downloadAsync settles: status 200, another status, or a rejection
FetchDone(j, r) ==
    /\ Awaiting(j, "fetch")
    /\ LET got == [jobs EXCEPT ![j].status = r]
       IN  IF r = "throw" THEN CatchIn(got, j)
           ELSE IF IsSuccess(r)
           THEN GotoIn(got, j, AfterFetch)
           ELSE NotifyIn(got, j, "status", "Download failed. Please try again.",
                         "error", "Download Failed")
    /\ UNCHANGED <<envVars, overlayVars, form, bridgeVars, perm, backVars, nav>>

\* MediaLibrary.createAssetAsync settles; a rejection enters the inner catch
CreateAssetDone(j, r) ==
    /\ Awaiting(j, "createAsset")
    /\ Goto(j, IF r = "ok" THEN "getAlbum" ELSE "shareAvail")
    /\ UNCHANGED <<envVars, overlayVars, form, bridgeVars, perm, backVars, nav>>

\* MediaLibrary.getAlbumAsync('Download') settles: an album, null, or a rejection
GetAlbumDone(j, r) ==
    /\ Awaiting(j, "getAlbum")
    /\ Goto(j, CASE r = "album" -> "addAssets"
                 [] r = "null" -> "createAlbum"
                 [] r = "throw" -> "shareAvail")
    /\ UNCHANGED <<envVars, overlayVars, form, bridgeVars, perm, backVars, nav>>

\* MediaLibrary.addAssetsToAlbumAsync or createAlbumAsync settles
SaveDone(j, r) ==
    /\ Awaiting(j, "addAssets") \/ Awaiting(j, "createAlbum")
    /\ IF r = "ok"
       THEN Notify(j, "persisted", "Report saved to Downloads!", "success", "")
       ELSE Goto(j, "shareAvail")
    /\ UNCHANGED <<envVars, overlayVars, form, bridgeVars, perm, backVars, nav>>

\* Sharing.isAvailableAsync settles.  Revision 2 is inside the inner catch:
\* when sharing is unavailable it falls through to finally without a toast.
ShareAvailDone(j, r) ==
    /\ Awaiting(j, "shareAvail")
    /\ CASE r = "true" -> Goto(j, "share")
         [] r = "false" ->
              IF revision = 2
              THEN Return(j, "nofallback", <<>>) /\ UNCHANGED toastVars
              ELSE Notify(j, "saved", "", "", "Download Complete")
         [] r = "throw" -> Catch(j)
    /\ UNCHANGED <<envVars, overlayVars, form, bridgeVars, perm, backVars, nav>>

\* Sharing.shareAsync settles
ShareDone(j, r) ==
    /\ Awaiting(j, "share")
    /\ IF r = "ok"
       THEN IF revision = 2
            THEN Notify(j, "shared", "Report ready to save", "success", "")
            ELSE Return(j, "shared", <<>>) /\ UNCHANGED toastVars
       ELSE Catch(j)
    /\ UNCHANGED <<envVars, overlayVars, form, bridgeVars, perm, backVars, nav>>

\* WebView onFileDownload
OnFileDownload(url) ==
    /\ Running
    /\ handleDownload(url)
    /\ UNCHANGED <<envVars, overlayVars, form, bridgeVars, perm, backVars, nav>>

-----------------------------------------------------------------------------
(* Navigation interceptor: handleShouldStartLoadWithRequest *)

\* Rule 1: a report endpoint
IsReport(url) == includes(url, ProjectsSeg) /\ includes(url, ReportMark)

\* Mutant: rule 2 looks for .pdf anywhere in the URL
IsFileDownloadAnywhere(url) ==
    \/ startsWith(url, BlobScheme)
    \/ includes(url, DownloadMark)
    \/ includes(url, PdfExt)

\* Rule 2: a blob URL, a download marker, or a URL ending in .pdf
IsFileDownload(url) ==
    \/ startsWith(url, BlobScheme)
    \/ includes(url, DownloadMark)
    \/ endsWith(url, PdfExt)

\* Rule 3: navigation within the app
IsInApp(url) ==
    \/ startsWith(url, WEB_APP_URL)
    \/ startsWith(url, AboutScheme)
    \/ revision = 2 /\ url = AboutBlank

\* Mutant: revision 2 too opens http and https URLs in the device browser
IsExternalAnyRevision(url) ==
    startsWith(url, HttpScheme) \/ startsWith(url, HttpsScheme)

\* Mutant: no revision opens a URL in the device browser
IsExternalNever(url) == FALSE

\* Rule 4 of revision 1: any other http(s) link goes to the device browser
IsExternal(url) ==
    /\ revision = 1
    /\ startsWith(url, HttpScheme) \/ startsWith(url, HttpsScheme)

\* Mutant: the in-app rule is decided before the download rules
DecideInAppFirst(url) ==
    IF IsInApp(url) THEN "allow"
    ELSE IF IsReport(url) THEN "download"
    ELSE IF IsFileDownload(url) THEN "download"
    ELSE IF IsExternal(url) THEN "external"
    ELSE "allow"

\* Mutant: a URL that no rule recognises is blocked
DecideDefaultBlock(url) ==
    IF IsReport(url) THEN "download"
    ELSE IF IsFileDownload(url) THEN "download"
    ELSE IF IsInApp(url) THEN "allow"
    ELSE IF IsExternal(url) THEN "external"
    ELSE "block"

\* The interceptor's answer: "download" and "external" return false,
\* "allow" returns true.  The first rule that matches decides.
Decide(url) ==
    IF IsReport(url) THEN "download"
    ELSE IF IsFileDownload(url) THEN "download"
    ELSE IF IsInApp(url) THEN "allow"
    ELSE IF IsExternal(url) THEN "external"
    ELSE "allow"

NoNav == [url |-> <<>>, result |-> "none", opened |-> 0]

\* onShouldStartLoadWithRequest: the decision, and the download it starts
handleShouldStartLoadWithRequest(url) ==
    /\ Running
    /\ LET d == Decide(url)
       IN  /\ nav' = [url |-> url,
                      result |-> IF d = "allow" THEN "true" ELSE "false",
                      opened |-> IF d = "external" THEN 1 ELSE 0]
           /\ IF d = "download"
              THEN handleDownload(url)
              ELSE UNCHANGED <<dlVars, toastVars>>
    /\ UNCHANGED <<envVars, overlayVars, form, bridgeVars, perm, backVars>>

-----------------------------------------------------------------------------
(* Bridge router: handleMessage, one record of `msgs` per invocation *)

\* The message texts the page posts
Payloads ==
    { "{\"type\":\"pickImage\"}", "{\"type\":\"pickFile\"}",
      "{\"type\":\"takePhoto\"}", "{\"type\":\"unknown\"}", "{}", "null", "42",
      "pickFile" }

\* Mutant: a bare word is read as the type of a request
JSONparseLenient(text) ==
    CASE text = "{\"type\":\"pickImage\"}" -> [kind |-> "object", type |-> "pickImage"]
      [] text = "{\"type\":\"pickFile\"}" -> [kind |-> "object", type |-> "pickFile"]
      [] text = "{\"type\":\"takePhoto\"}" -> [kind |-> "object", type |-> "takePhoto"]
      [] text = "{\"type\":\"unknown\"}" -> [kind |-> "object", type |-> "unknown"]
      [] text = "{}" -> [kind |-> "object", type |-> "undefined"]
      [] text = "null" -> [kind |-> "null", type |-> "undefined"]
      [] text = "42" -> [kind |-> "number", type |-> "undefined"]
      [] OTHER -> [kind |-> "object", type |-> text]

\* JSON.parse on the texts of Payloads: the value, or a SyntaxError
JSONparse(text) ==
    CASE text = "{\"type\":\"pickImage\"}" -> [kind |-> "object", type |-> "pickImage"]
      [] text = "{\"type\":\"pickFile\"}" -> [kind |-> "object", type |-> "pickFile"]
      [] text = "{\"type\":\"takePhoto\"}" -> [kind |-> "object", type |-> "takePhoto"]
      [] text = "{\"type\":\"unknown\"}" -> [kind |-> "object", type |-> "unknown"]
      [] text = "{}" -> [kind |-> "object", type |-> "undefined"]
      [] text = "null" -> [kind |-> "null", type |-> "undefined"]
      [] text = "42" -> [kind |-> "number", type |-> "undefined"]
      [] OTHER -> [kind |-> "SyntaxError", type |-> "undefined"]

\* JSON.stringify of an object: a property whose value is undefined is left out
JSONstringify(obj) ==
    [k \in {f \in DOMAIN obj : obj[f] # "undefined"} |-> obj[k]]

\* The picker each request type launches
PickerOf(type) ==
    CASE type = "pickImage" -> "launchImageLibraryAsync"
      [] type = "pickFile" -> "getDocumentAsync"
      [] type = "takePhoto" -> "launchCameraAsync"

\* How an awaited picker settles: with a cancellation, with its one selected
\* asset, or with a rejection
Pending == [state |-> "pending", canceled |-> FALSE, assets |-> <<>>]

Canceled == [state |-> "resolved", canceled |-> TRUE, assets |-> <<>>]

Picked(uri, name) ==
    [state |-> "resolved", canceled |-> FALSE, assets |-> <<[uri |-> uri, name |-> name]>>]

Rejected == [state |-> "rejected", canceled |-> FALSE, assets |-> <<>>]

PickerResults(picker) ==
    CASE picker = "launchImageLibraryAsync" ->
             {Canceled, Rejected, Picked("file:///cache/ImagePicker/site.jpg", "undefined")}
      [] picker = "getDocumentAsync" ->
             {Canceled, Rejected,
              Picked("file:///cache/DocumentPicker/invoice.pdf", "invoice.pdf")}
      [] picker = "launchCameraAsync" ->
             {Canceled, Rejected, Picked("file:///cache/ImagePicker/shot.jpg", "undefined")}

\* Mutant: every response carries the type of the image picker
ResponseTypeImage(type) == "imageSelected"

\* The type of the response to a request type
ResponseType(type) ==
    CASE type = "pickImage" -> "imageSelected"
      [] type = "pickFile" -> "fileSelected"
      [] type = "takePhoto" -> "photoTaken"

\* The object the handler serialises into the injected script
Response(type, asset) ==
    [type |-> ResponseType(type), uri |-> asset.uri,
     name |-> IF type = "pickFile" THEN asset.name ELSE "undefined"]

SuccessMessage(type) ==
    CASE type = "pickImage" -> "Photo selected!"
      [] type = "pickFile" -> "File selected!"
      [] type = "takePhoto" -> "Photo captured!"

\* result.assets[0]; undefined when the array is empty
FirstAsset(result) ==
    IF Len(result.assets) > 0 THEN result.assets[1]
    ELSE [uri |-> "undefined", name |-> "undefined"]

\* Mutant: the picker result is used without looking at result.canceled
SelectedIgnoringCancel(result) == TRUE

\* !result.canceled && result.assets[0]
Selected(result) == ~result.canceled /\ Len(result.assets) > 0

\* Mutant: JSON.parse sits before the try block
GuardedAfterParse(stage) == stage # "parse"

\* The try block encloses the whole body of handleMessage: an exception of
\* any stage reaches the catch block
Guarded(stage) == TRUE

\* An exception thrown at `stage`: console.log in the catch block, after which
\* the handler's promise resolves
Thrown(msg, stage) ==
    IF Guarded(stage)
    THEN [msg EXCEPT !.pc = "done", !.outcome = "caught", !.logged = @ + 1]
    ELSE [msg EXCEPT !.pc = "done", !.outcome = "rejected"]

\* handleMessage up to its await of a picker, or to its end.  A message records
\* the text it came with, the parsed type, the picker it launched and what the
\* picker resolved with, the toasts it showed, the responses it injected, the
\* number of console.log calls and how the handler ended.
handleMessage(text) ==
    /\ Running
    /\ revision = 2
    /\ webViewRef
    /\ Len(msgs) < MaxMsgs
    /\ LET data == JSONparse(text)
           msg == [text |-> text, type |-> data.type, pc |-> "parse",
                   picker |-> "none", result |-> Pending, emitted |-> <<>>,
                   responses |-> 0, logged |-> 0, outcome |-> "none"]
       IN  msgs' = Append(msgs,
                CASE data.kind = "SyntaxError" -> Thrown(msg, "parse")
                  [] data.kind = "null" -> Thrown(msg, "type")
                  [] data.type \in {"pickImage", "pickFile", "takePhoto"} ->
                         [msg EXCEPT !.pc = "picker", !.picker = PickerOf(data.type)]
                  [] OTHER -> [msg EXCEPT !.pc = "done", !.outcome = "ignored"])
    /\ UNCHANGED <<envVars, overlayVars, form, injected, perm, toastVars, backVars, dlVars, nav>>

\* The WebView unmounts while the JavaScript context lives on (the host
\* activity is destroyed behind a picker or after exitApp): React resets the
\* ref to null, and no further message arrives.  The handlers that are
\* suspended at a picker resume when it settles.
Unmount ==
    /\ webViewRef
    /\ webViewRef' = FALSE
    /\ UNCHANGED <<revision, batchedUpdates, platform, overlayVars, form, bridgeVars,
                   perm, toastVars, backVars, dlVars, nav>>

\* The picker of message m settles.  A selection is posted into the page when
\* webViewRef.current is set, and the toast is shown either way.
PickerDone(m, r) ==
    /\ Running
    /\ m \in 1..Len(msgs)
    /\ msgs[m].pc = "picker"
    /\ LET msg == [msgs[m] EXCEPT !.result = r]
       IN  IF r.state = "rejected"
           THEN /\ msgs' = [msgs EXCEPT ![m] = Thrown(msg, "picker")]
                /\ UNCHANGED <<injected, toastVars>>
           ELSE IF Selected(r)
           THEN /\ injected' = IF webViewRef
                               THEN Append(injected,
                                           JSONstringify(Response(msg.type, FirstAsset(r))))
                               ELSE injected
                /\ SetUI(showToast(UI, SuccessMessage(msg.type), "success", DefaultDuration))
                /\ msgs' = [msgs EXCEPT ![m] =
                               [msg EXCEPT !.pc = "done", !.outcome = "answered",
                                           !.responses = IF webViewRef THEN @ + 1 ELSE @,
                                           !.emitted = @ \o <<"success">>]]
           ELSE /\ msgs' = [msgs EXCEPT ![m] =
                               [msg EXCEPT !.pc = "done", !.outcome = "dismissed"]]
                /\ UNCHANGED <<injected, toastVars>>
    /\ UNCHANGED <<envVars, overlayVars, form, perm, backVars, dlVars, nav>>

-----------------------------------------------------------------------------
(* Permission gate: requestPermissions, run by the mount effect *)

NoRun == [pc |-> "idle", mediaStatus |-> "none", requested |-> <<>>,
          results |-> <<>>, emitted |-> <<>>, logged |-> 0, outcome |-> "none"]

\* What a permission request resolves with
Statuses == {"granted", "denied", "undetermined"}

\* mediaStatus === 'granted'
IsGranted(status) == status = "granted"

\* The mount effect: off the web, requestPermissions runs up to its await of
\* MediaLibrary.requestPermissionsAsync
requestPermissions ==
    /\ Running
    /\ revision = 2
    /\ platform # "web"
    /\ perm.pc = "idle"
    /\ perm' = [perm EXCEPT !.pc = "storage", !.requested = <<"storage">>]
    /\ UNCHANGED <<envVars, overlayVars, form, bridgeVars, toastVars, backVars, dlVars, nav>>

\* The single catch block: console.log, after which the promise resolves
PermCaught(run) == [run EXCEPT !.pc = "done", !.outcome = "caught", !.logged = @ + 1]

\* MediaLibrary.requestPermissionsAsync settles
StoragePermDone(r) ==
    /\ Running
    /\ perm.pc = "storage"
    /\ LET run == [perm EXCEPT !.results = Append(@, r)]
       IN  IF r = "throw"
           THEN /\ perm' = PermCaught(run)
                /\ UNCHANGED toastVars
           ELSE IF ~IsGranted(r)
           THEN /\ SetUI(showToast(UI, "Storage permission needed to save files",
                                   "error", DefaultDuration))
                /\ perm' = [run EXCEPT !.pc = "camera", !.mediaStatus = r,
                                       !.requested = Append(@, "camera"),
                                       !.emitted = Append(@, "error")]
           ELSE /\ perm' = [run EXCEPT !.pc = "camera", !.mediaStatus = r,
                                       !.requested = Append(@, "camera")]
                /\ UNCHANGED toastVars
    /\ UNCHANGED <<envVars, overlayVars, form, bridgeVars, backVars, dlVars, nav>>

\* ImagePicker.requestCameraPermissionsAsync settles; its status is unused
CameraPermDone(r) ==
    /\ Running
    /\ perm.pc = "camera"
    /\ LET run == [perm EXCEPT !.results = Append(@, r)]
       IN  perm' = IF r = "throw" THEN PermCaught(run)
                   ELSE [run EXCEPT !.pc = "picker", !.requested = Append(@, "picker")]
    /\ UNCHANGED <<envVars, overlayVars, form, bridgeVars, toastVars, backVars, dlVars, nav>>

\* ImagePicker.requestMediaLibraryPermissionsAsync settles; its status is
\* unused.  The 'Ready' toast follows when the storage status was granted.
PickerPermDone(r) ==
    /\ Running
    /\ perm.pc = "picker"
    /\ LET run == [perm EXCEPT !.results = Append(@, r)]
       IN  IF r = "throw"
           THEN /\ perm' = PermCaught(run)
                /\ UNCHANGED toastVars
           ELSE IF IsGranted(run.mediaStatus)
           THEN /\ SetUI(showToast(UI, "Ready to use CSMS", "success", ReadyDuration))
                /\ perm' = [run EXCEPT !.pc = "done", !.outcome = "returned",
                                       !.emitted = Append(@, "success")]
           ELSE /\ perm' = [run EXCEPT !.pc = "done", !.outcome = "returned"]
                /\ UNCHANGED toastVars
    /\ UNCHANGED <<envVars, overlayVars, form, bridgeVars, backVars, dlVars, nav>>

-----------------------------------------------------------------------------
(* The URLs the embedded page requests *)

\* An absolute URL starts with one of these
Heads ==
    { WEB_APP_URL, BlobScheme, AboutBlank,
      <<"h","t","t","p",":","/","/","x",".","i","o">>,
      <<"h","t","t","p","s",":","/","/","x",".","i","o">>,
      <<"m","a","i","l","t","o",":","a","@","x",".","i","o">> }

Fragments ==
    Heads \cup
    { ProjectsSeg \o <<"4","2">>, ReportMark,
      <<"/","a","p","p">>,
      <<"/","d","o","c",".","p","d","f">>,
      <<"?","v","=","1">>,
      <<"?","d","o","w","n","l","o","a","d","=","1">> }

RECURSIVE Concat(_)
Concat(fs) == IF fs = <<>> THEN <<>> ELSE Head(fs) \o Concat(Tail(fs))

\* A head followed by at most MaxFrags fragments
Urls ==
    {h \o Concat(fs) : h \in Heads,
                       fs \in UNION {[1..n -> Fragments] : n \in 0..MaxFrags}}

ReportUrl == WEB_APP_URL \o ProjectsSeg \o <<"4","2">> \o ReportMark

-----------------------------------------------------------------------------
(* Specifications *)

\* ProjectFormScreen after construction: useState(false) and an empty form.
\* Of formData only the name is kept, the one field handleSave reads.  `pc` is
\* where the handleSave run stands, `requests` counts the createProject calls,
\* `sent` is the name of the last one, `alert` the open Alert dialog and `back`
\* what called navigation.goBack().
NoForm ==
    [name |-> <<>>, loading |-> FALSE, pc |-> "idle", requests |-> 0,
     sent |-> <<>>, alert |-> "none", back |-> "none"]

Init ==
    /\ revision \in {1, 2}
    /\ batchedUpdates \in BOOLEAN
    /\ toast = HiddenToast
    /\ timers = {}
    /\ lastShow = [message |-> "", type |-> "info", left |-> 0]
    /\ backPressCount = 0
    /\ backPressTimer = 0
    /\ exitCalls = 0
    /\ sincePress = NoPress
    /\ downloading = FALSE
    /\ jobs = <<>>
    /\ nav = NoNav
    /\ platform \in {"android", "ios", "web"}
    /\ webViewRef = (platform # "web")
    /\ msgs = <<>>
    /\ injected = <<>>
    /\ perm = NoRun
    /\ handled = "none"
    /\ loading = TRUE
    /\ error = FALSE
    /\ form = NoForm

Fetched == \E j \in 1..MaxJobs, r \in {"200", "404", "throw"} : FetchDone(j, r)

AssetCreated == \E j \in 1..MaxJobs, r \in {"ok", "throw"} : CreateAssetDone(j, r)

AlbumLooked == \E j \in 1..MaxJobs, r \in {"album", "null", "throw"} : GetAlbumDone(j, r)

Saved == \E j \in 1..MaxJobs, r \in {"ok", "throw"} : SaveDone(j, r)

ShareChecked == \E j \in 1..MaxJobs, r \in {"true", "false", "throw"} : ShareAvailDone(j, r)

Shared == \E j \in 1..MaxJobs, r \in {"ok", "throw"} : ShareDone(j, r)

\* The awaited platform call of job j settles
JobStep(j) ==
    \/ \E r \in {"200", "404", "throw"} : FetchDone(j, r)
    \/ \E r \in {"ok", "throw"} : CreateAssetDone(j, r)
    \/ \E r \in {"album", "null", "throw"} : GetAlbumDone(j, r)
    \/ \E r \in {"ok", "throw"} : SaveDone(j, r)
    \/ \E r \in {"true", "false", "throw"} : ShareAvailDone(j, r)
    \/ \E r \in {"ok", "throw"} : ShareDone(j, r)

FileDownload == \E url \in {ReportUrl} : OnFileDownload(url)

Navigate == \E url \in {ReportUrl} : handleShouldStartLoadWithRequest(url)

\* The download pipeline with its toasts, under both revisions
InitDL ==
    /\ Init
    /\ batchedUpdates
    /\ platform = "android"

NextDL ==
    \/ FileDownload
    \/ Navigate
    \/ Fetched
    \/ AssetCreated
    \/ AlbumLooked
    \/ Saved
    \/ ShareChecked
    \/ Shared
    \/ HideToastTimer
    \/ Tick

SpecDL == InitDL /\ [][NextDL]_vars

\* The downloads the WebView's onFileDownload starts, where every awaited
\* platform call eventually resolves or rejects
NextDLFair ==
    \/ FileDownload
    \/ Fetched
    \/ AssetCreated
    \/ AlbumLooked
    \/ Saved
    \/ ShareChecked
    \/ Shared
    \/ HideToastTimer
    \/ Tick

SpecDLFair ==
    /\ InitDL
    /\ [][NextDLFair]_vars
    /\ \A j \in 1..MaxJobs : WF_vars(JobStep(j))

\* The exit confirmation of revision 2, next to one download
InitBack ==
    /\ Init
    /\ revision = 2
    /\ platform = "android"

OneDownload == jobs = <<>> /\ FileDownload

NextBack ==
    \/ BackPress
    \/ OneDownload
    \/ Fetched
    \/ AssetCreated
    \/ AlbumLooked
    \/ Saved
    \/ ShareChecked
    \/ Shared
    \/ DisarmTimer
    \/ HideToastTimer
    \/ Tick

SpecBack == InitBack /\ [][NextBack]_vars

\* The interceptor applied to one request out of Urls
NavRequest ==
    /\ nav = NoNav
    /\ \E url \in Urls : handleShouldStartLoadWithRequest(url)

InitNav ==
    /\ Init
    /\ batchedUpdates
    /\ platform = "android"

SpecNav == InitNav /\ [][NavRequest]_vars

\* One download started by onFileDownload for a URL out of Urls
FileRequest ==
    /\ jobs = <<>>
    /\ \E url \in Urls : OnFileDownload(url)

SpecFile == InitNav /\ [][FileRequest]_vars

\* The bridge router of revision 2 with its toasts
Message == \E text \in Payloads : handleMessage(text)

PickerSettled ==
    \E m \in {i \in 1..Len(msgs) : msgs[i].pc = "picker"} :
        \E r \in PickerResults(msgs[m].picker) : PickerDone(m, r)

InitBridge ==
    /\ Init
    /\ revision = 2
    /\ batchedUpdates
    /\ platform = "android"

NextBridge ==
    \/ Message
    \/ PickerSettled
    \/ HideToastTimer
    \/ Tick

SpecBridge == InitBridge /\ [][NextBridge]_vars

\* The bridge router when the WebView may unmount under a pending picker
NextTeardown ==
    \/ Message
    \/ PickerSettled
    \/ Unmount
    \/ HideToastTimer
    \/ Tick

SpecTeardown == InitBridge /\ [][NextTeardown]_vars

\* The permission gate of revision 2 on every platform, with its toasts
StorageSettled == \E r \in Statuses \cup {"throw"} : StoragePermDone(r)

CameraSettled == \E r \in Statuses \cup {"throw"} : CameraPermDone(r)

LibrarySettled == \E r \in Statuses \cup {"throw"} : PickerPermDone(r)

InitPerm ==
    /\ Init
    /\ revision = 2
    /\ batchedUpdates

NextPerm ==
    \/ requestPermissions
    \/ StorageSettled
    \/ CameraSettled
    \/ LibrarySettled
    \/ HideToastTimer
    \/ Tick

SpecPerm == InitPerm /\ [][NextPerm]_vars

\* The two mount effects of revision 2 on every platform: the permission
\* gate and the hardwareBackPress listener
InitMount ==
    /\ Init
    /\ revision = 2

NextMount ==
    \/ requestPermissions
    \/ StorageSettled
    \/ CameraSettled
    \/ LibrarySettled
    \/ BackPress
    \/ DisarmTimer
    \/ HideToastTimer
    \/ Tick

SpecMount == InitMount /\ [][NextMount]_vars

\* The toasts of revision 2 on Android: the permission gate next to one
\* download.  Time passes and a due timer runs its callback.
InitToast ==
    /\ Init
    /\ revision = 2
    /\ batchedUpdates
    /\ platform = "android"

NextToast ==
    \/ requestPermissions
    \/ StorageSettled
    \/ CameraSettled
    \/ LibrarySettled
    \/ OneDownload
    \/ Fetched
    \/ AssetCreated
    \/ AlbumLooked
    \/ Saved
    \/ ShareChecked
    \/ Shared
    \/ HideToastTimer
    \/ Tick

SpecToast ==
    /\ InitToast
    /\ [][NextToast]_vars
    /\ WF_vars(HideToastTimer)
    /\ WF_vars(Tick)

-----------------------------------------------------------------------------
(* Properties *)

Jobs == 1..Len(jobs)

\* C1: whenever at least one download is between its start and its return,
\* the busy flag `downloading` is true, also when downloads overlap.
C1_BusyWhileAnyInFlight == AnyInFlight => downloading

\* C2: a download that no other download overlaps keeps `downloading` true
\* from its start until it returns, and the step in which it returns leaves
\* `downloading` false, on every path.
C2_SingleDownloadBusy ==
    /\ [](\A j \in Jobs : (~jobs[j].overlapped /\ InFlight(j)) => downloading)
    /\ [][\A j \in Jobs :
            (~jobs[j].overlapped /\ InFlight(j) /\ jobs'[j].pc = "done")
                => ~downloading']_vars

C2_Witness ==
    \E j \in Jobs :
        /\ ~jobs[j].overlapped
        /\ jobs[j].pc = "done"
        /\ jobs[j].outcome = "shared"
        /\ ~downloading

\* C3: when more than the 2-second window has passed since the last back
\* press and the process has not exited, the machine is Idle again
\* (backPressCount = 0), so the next press re-arms instead of exiting.
C3_IdleAfterWindow ==
    (exitCalls = 0 /\ sincePress > Window) => backPressCount = 0

\* A second press arrives before the disarm timer of the press before it fired
SecondPressInTime ==
    \/ sincePress < Window
    \/ sincePress = Window /\ (batchedUpdates \/ Due("disarm") # {})

\* C4: a back press in Idle never calls exit; a back press that arrives
\* before the disarm timer of the press before it has fired calls exit, and
\* that is the only exit call.
C4_ExitOnSecondPress ==
    [][BackPress =>
          /\ (backPressCount = 0 => exitCalls' = exitCalls)
          /\ (SecondPressInTime => exitCalls = 0 /\ exitCalls' = 1)]_vars

C4_Witness ==
    /\ exitCalls = 1
    /\ \E t \in timers : t.kind = "disarm" /\ t.left > 0

\* C5: while the duration of the most recent showToast call has not run
\* out, the toast shows that call's message and severity.
C5_ToastKeepsDuration ==
    lastShow.left > 0 => toast = ToastOf(lastShow.message, lastShow.type)

\* C6: a download of revision 2 that has returned emitted exactly one
\* terminal toast: Success if the file was persisted or shared, Error on
\* every other path.
C6_OneTerminalToast ==
    revision = 2 =>
        \A j \in Jobs :
            jobs[j].pc = "done" =>
                jobs[j].emitted = IF jobs[j].outcome \in {"persisted", "shared"}
                                  THEN <<"success">>
                                  ELSE <<"error">>

\* C7: when every awaited platform call settles, downloads in flight lead to
\* a state in which every started download has returned, and whenever no
\* download is in flight `downloading` is false.
C7_BusyNeverStuck ==
    /\ AnyInFlight ~> ~AnyInFlight
    /\ [](~AnyInFlight => ~downloading)

C7_Witness ==
    /\ jobs # <<>>
    /\ ~AnyInFlight
    /\ \E j \in Jobs : jobs[j].outcome = "threw"
    /\ \E j \in Jobs : jobs[j].outcome = "nofallback"
    /\ ~downloading

Answered == nav.result # "none"

\* The request started exactly one download, of the requested URL
StartedDownload == Len(jobs) = 1 /\ jobs[1].url = nav.url /\ jobs[1].pc = "fetch"

HasPrefix(url, p) == Len(url) >= Len(p) /\ SubSeq(url, 1, Len(p)) = p

HasSuffix(url, p) ==
    Len(url) >= Len(p) /\ SubSeq(url, Len(url) - Len(p) + 1, Len(url)) = p

HasInfix(url, p) ==
    \E k \in 0..(Len(url) - Len(p)) : SubSeq(url, k + 1, k + Len(p)) = p

HasReportPattern(url) == HasInfix(url, ProjectsSeg) /\ HasInfix(url, ReportMark)

\* C8: for a URL with a '/projects/' segment and a '/report' marker the
\* interceptor returns false and starts exactly one download of that URL,
\* also when the URL is same-origin.
C8_ReportSuppressed ==
    (Answered /\ HasReportPattern(nav.url)) =>
        nav.result = "false" /\ StartedDownload /\ nav.opened = 0

C8_Witness ==
    /\ Answered
    /\ HasReportPattern(nav.url)
    /\ HasPrefix(nav.url, WEB_APP_URL)
    /\ nav.result = "false"
    /\ StartedDownload

\* C9: for a URL that starts with the application origin and matches no
\* download rule the interceptor returns true and starts no download.
C9_SameOriginAllowed ==
    (/\ Answered
     /\ HasPrefix(nav.url, WEB_APP_URL)
     /\ ~HasReportPattern(nav.url)
     /\ ~HasPrefix(nav.url, BlobScheme)
     /\ ~HasInfix(nav.url, DownloadMark)
     /\ ~HasSuffix(nav.url, PdfExt))
        => nav.result = "true" /\ jobs = <<>> /\ nav.opened = 0

C9_Witness ==
    /\ Answered
    /\ HasPrefix(nav.url, WEB_APP_URL)
    /\ HasInfix(nav.url, PdfExt)
    /\ ~HasSuffix(nav.url, PdfExt)
    /\ nav.result = "true"
    /\ jobs = <<>>

\* The path component of a URL: what precedes the first '?' or '#'
PathOf(url) ==
    LET cut == {i \in 1..Len(url) : url[i] \in {"?", "#"}}
    IN  IF cut = {} THEN url
        ELSE SubSeq(url, 1, (CHOOSE i \in cut : \A k \in cut : i <= k) - 1)

\* C10: for a blob: URL, a URL with the 'download=' marker, or a URL whose
\* path ends in '.pdf' (a query string or fragment may follow), the
\* interceptor returns false and starts a download.
C10_FileUrlSuppressed ==
    (/\ Answered
     /\ \/ HasPrefix(nav.url, BlobScheme)
        \/ HasInfix(nav.url, DownloadMark)
        \/ HasSuffix(PathOf(nav.url), PdfExt))
        => nav.result = "false" /\ StartedDownload

\* A URL that none of the interceptor's rules recognises
Unrecognized(url) ==
    /\ ~HasReportPattern(url)
    /\ ~HasPrefix(url, BlobScheme)
    /\ ~HasInfix(url, DownloadMark)
    /\ ~HasSuffix(url, PdfExt)
    /\ ~HasPrefix(url, WEB_APP_URL)
    /\ ~HasPrefix(url, AboutScheme)
    /\ ~HasPrefix(url, HttpScheme)
    /\ ~HasPrefix(url, HttpsScheme)

\* C11: the interceptor is total: it answers every URL with exactly one of
\* true and false, and a URL that matches none of the recognised rules (no
\* download trigger, not same-origin, not 'about:', not http or https) is
\* allowed without a download or an external open.
C11_InterceptorTotal ==
    /\ nav = NoNav => \A url \in Urls : Decide(url) \in {"download", "allow", "external"}
    /\ Answered => nav.result \in {"true", "false"}
    /\ (Answered /\ Unrecognized(nav.url))
           => nav.result = "true" /\ jobs = <<>> /\ nav.opened = 0

C11_Witness ==
    /\ Answered
    /\ Unrecognized(nav.url)
    /\ HasPrefix(nav.url, <<"m","a","i","l","t","o",":">>)
    /\ nav.result = "true"

\* The fetch of a job settled with a non-success status or rejected
FetchFailed(job) == job.status \in {"404", "throw"}

\* C12: in revision 2, when the fetch returns a non-success status or fails
\* in transport the download ends there: an Error toast is shown, neither the
\* persistence nor the share fallback is attempted, and the step that ends
\* the download leaves the busy flag false.  The interceptor suppresses the
\* report URL and starts the download that ends this way on a 404.
C12_FailedFetchEndsFailed ==
    /\ [](revision = 2 =>
            \A j \in Jobs :
                FetchFailed(jobs[j]) =>
                    /\ jobs[j].pc = "done"
                    /\ jobs[j].emitted = <<"error">>
                    /\ jobs[j].persist = "none"
                    /\ jobs[j].shares = 0)
    /\ [][revision = 2 =>
            \A j \in Jobs :
                (~FetchFailed(jobs[j]) /\ FetchFailed(jobs'[j])) =>
                    /\ toast'.visible
                    /\ toast'.type = "error"
                    /\ ~downloading']_vars
    /\ []((Answered /\ nav.url = ReportUrl) =>
            nav.result = "false" /\ \E j \in Jobs : jobs[j].url = ReportUrl)

C12_Witness ==
    /\ revision = 2
    /\ nav.url = ReportUrl
    /\ nav.result = "false"
    /\ Len(jobs) = 1
    /\ jobs[1].url = ReportUrl
    /\ jobs[1].status = "404"
    /\ jobs[1].pc = "done"
    /\ jobs[1].emitted = <<"error">>
    /\ ~downloading

Msgs == 1..Len(msgs)

\* The picker of message m has settled in this step
PickerReturned(m) == msgs[m].pc = "picker" /\ msgs'[m].pc = "done"

\* C13: for each of pickImage, pickFile and takePhoto, when the user cancels
\* the picker the handler injects no response, shows no toast and completes
\* normally (nothing is thrown or logged).
C13_CancelIsSilent ==
    /\ [](\A m \in Msgs :
            (msgs[m].result.state = "resolved" /\ msgs[m].result.canceled) =>
                /\ msgs[m].type \in {"pickImage", "pickFile", "takePhoto"}
                /\ msgs[m].pc = "done"
                /\ msgs[m].responses = 0
                /\ msgs[m].emitted = <<>>
                /\ msgs[m].logged = 0
                /\ msgs[m].outcome = "dismissed")
    /\ [][\A m \in Msgs :
            (PickerReturned(m) /\ msgs'[m].result.canceled) =>
                injected' = injected /\ toast' = toast /\ timers' = timers]_vars

C13_Witness ==
    /\ Len(msgs) = 2
    /\ msgs[1].type = "takePhoto"
    /\ msgs[2].type = "pickImage"
    /\ \A m \in Msgs : msgs[m].pc = "done" /\ msgs[m].result.canceled
    /\ injected = <<>>
    /\ toast = HiddenToast

\* The message texts that are valid JSON with a recognised type
RecognizedTexts ==
    { "{\"type\":\"pickImage\"}", "{\"type\":\"pickFile\"}", "{\"type\":\"takePhoto\"}" }

\* C14: a payload that is not valid JSON, or that decodes to a value without
\* a recognised type ({"type":"unknown"}, null, a number), launches no picker,
\* injects no response and shows no toast, and the handler's promise does not
\* reject.
C14_MalformedIsIgnored ==
    /\ [](\A m \in Msgs :
            msgs[m].text \notin RecognizedTexts =>
                /\ msgs[m].pc = "done"
                /\ msgs[m].picker = "none"
                /\ msgs[m].responses = 0
                /\ msgs[m].emitted = <<>>
                /\ msgs[m].outcome \in {"ignored", "caught"})
    /\ [][(Len(msgs') > Len(msgs) /\ msgs'[Len(msgs')].text \notin RecognizedTexts) =>
            injected' = injected /\ toast' = toast /\ timers' = timers]_vars

C14_Witness ==
    /\ Len(msgs) = 2
    /\ msgs[1].text = "pickFile"
    /\ msgs[1].outcome = "caught"
    /\ msgs[2].text = "null"
    /\ msgs[2].outcome = "caught"
    /\ injected = <<>>
    /\ toast = HiddenToast

\* The response a selection calls for
Expected(type, asset) ==
    CASE type = "pickImage" -> [type |-> "imageSelected", uri |-> asset.uri]
      [] type = "pickFile" -> [type |-> "fileSelected", uri |-> asset.uri,
                               name |-> asset.name]
      [] type = "takePhoto" -> [type |-> "photoTaken", uri |-> asset.uri]

\* C15: when a picker returns a selection, the handler injects one response
\* whose type corresponds to the request (pickImage: imageSelected, pickFile:
\* fileSelected, takePhoto: photoTaken) and whose uri is the first asset's uri,
\* fileSelected carrying the asset's name as well, and it shows exactly one
\* Success toast.
C15_SelectionAnswered ==
    /\ [](\A m \in Msgs :
            (msgs[m].result.state = "resolved" /\ ~msgs[m].result.canceled) =>
                /\ msgs[m].pc = "done"
                /\ msgs[m].responses = 1
                /\ msgs[m].emitted = <<"success">>)
    /\ [][\A m \in Msgs :
            (PickerReturned(m) /\ msgs'[m].result.state = "resolved"
                               /\ ~msgs'[m].result.canceled) =>
                /\ injected' = Append(injected,
                                      Expected(msgs[m].type, msgs'[m].result.assets[1]))
                /\ toast'.visible
                /\ toast'.type = "success"]_vars

C15_Witness ==
    /\ Len(msgs) = 1
    /\ msgs[1].text = "{\"type\":\"pickFile\"}"
    /\ msgs[1].emitted = <<"success">>
    /\ injected = << [type |-> "fileSelected",
                      uri |-> "file:///cache/DocumentPicker/invoice.pdf",
                      name |-> "invoice.pdf"] >>

\* The three requests of the gate, in the order of the code
AllRequests == <<"storage", "camera", "picker">>

\* C16: the gate requests storage/media access, then camera access, then
\* media-library picker access, in that order, and a failed earlier request
\* (a denial, or the API throwing) does not prevent the later requests: a
\* finished run has made all three.
C16_AllRequestsMade ==
    /\ perm.requested = SubSeq(AllRequests, 1, Len(perm.requested))
    /\ perm.pc = "done" => perm.requested = AllRequests

\* C17: each run of the gate emits exactly one storage-outcome toast: Error
\* when storage access is denied, Success when it is granted, whatever the
\* later camera and media-library requests do (throwing included).
C17_OneStorageToast ==
    perm.pc = "done" =>
        /\ Len(perm.emitted) = 1
        /\ perm.results[1] = "granted" => perm.emitted = <<"success">>
        /\ perm.results[1] \in {"denied", "undetermined"} => perm.emitted = <<"error">>

\* C18: the gate lets no exception escape: when one of the three requests
\* throws, the exception is caught and logged, the promise resolves, and the
\* run goes on as if that capability had been denied (all three requests
\* made, the storage toast of a denial when it was the storage request).
C18_ThrowTreatedAsDenial ==
    (perm.pc = "done" /\ \E i \in 1..Len(perm.results) : perm.results[i] = "throw") =>
        /\ perm.outcome # "rejected"
        /\ perm.logged = 1
        /\ perm.requested = AllRequests
        /\ perm.emitted = IF perm.results[1] = "granted" THEN <<"success">>
                          ELSE <<"error">>

\* The last segment of a URL's path
LastSegment(url) == LastPart(PathOf(url))

\* A segment with a file extension: a '.' with text before and after it
HasExtension(seg) == \E i \in 2..(Len(seg) - 1) : seg[i] = "."

\* The synthesised name: the fixed prefix, the current date and '.pdf'
DatedName == ReportName \o <<"_">> \o SubSeq(Now, 1, 10) \o PdfExt

\* C19: the file name of the cache path is the last segment of the URL's path
\* when that segment has a recognisable extension, and otherwise the fixed
\* prefix followed by the current date and '.pdf'.
C19_FilenameFromUrl ==
    \A j \in Jobs :
        jobs[j].filename = IF HasExtension(LastSegment(jobs[j].url))
                           THEN LastSegment(jobs[j].url)
                           ELSE DatedName

\* C20: in revision 2 the share action is invoked only after the fetch
\* succeeded and the persistence attempt failed, never when persistence
\* succeeded or the fetch failed, and at most once per download; when
\* persistence has failed and sharing is reported available, it is invoked
\* exactly once.
C20_ShareOnlyAsFallback ==
    /\ [](revision = 2 =>
            \A j \in Jobs :
                /\ jobs[j].shares <= 1
                /\ jobs[j].shares > 0 =>
                       jobs[j].status = "200" /\ jobs[j].persist = "failed"
                /\ (jobs[j].persist = "ok" \/ FetchFailed(jobs[j])) =>
                       jobs[j].shares = 0)
    /\ [][revision = 2 =>
            \A j \in Jobs :
                ShareAvailDone(j, "true") =>
                    /\ jobs[j].persist = "failed"
                    /\ jobs[j].shares = 0
                    /\ jobs'[j].shares = 1
                    /\ jobs'[j].pc = "share"]_vars

C20_Witness ==
    /\ revision = 2
    /\ \E j \in Jobs :
          /\ jobs[j].pc = "done"
          /\ jobs[j].status = "200"
          /\ jobs[j].persist = "failed"
          /\ jobs[j].shares = 1
          /\ jobs[j].outcome = "shared"
    /\ \E j \in Jobs :
          /\ jobs[j].pc = "done"
          /\ jobs[j].persist = "ok"
          /\ jobs[j].shares = 0

\* The position of an await in handleDownload
Rank(pc) ==
    CASE pc = "fetch" -> 1
      [] pc = "createAsset" -> 2
      [] pc = "getAlbum" -> 3
      [] pc \in {"addAssets", "createAlbum"} -> 4
      [] pc = "shareAvail" -> 5
      [] pc = "share" -> 6
      [] pc = "done" -> 7

\* C21: within one download the status only moves forward: the fetch has
\* settled before persistence starts, persistence or its fallback has settled
\* before the terminal toast or alert, and a download that has ended takes no
\* further fetch, persist, share or toast step.
C21_StatusOnlyForward ==
    /\ [](\A j \in Jobs :
            /\ jobs[j].status = "none" <=> jobs[j].pc = "fetch"
            /\ (jobs[j].persist # "none" \/ jobs[j].shares > 0) => jobs[j].status = "200"
            /\ jobs[j].persist = "pending" =>
                   jobs[j].pc \in {"createAsset", "getAlbum", "addAssets", "createAlbum"}
            /\ jobs[j].emitted # <<>> => jobs[j].pc = "done")
    /\ [][\A j \in Jobs :
            /\ Rank(jobs'[j].pc) >= Rank(jobs[j].pc)
            /\ jobs[j].pc = "done" => jobs'[j] = jobs[j]]_vars

C21_Witness ==
    /\ Len(jobs) = 2
    /\ jobs[1].pc = "done"
    /\ jobs[1].outcome = "shared"
    /\ jobs[1].persist = "failed"
    /\ jobs[2].pc = "createAlbum"
    /\ toast.visible

\* The picker a request type calls for
ExpectedPicker(type) ==
    CASE type = "pickImage" -> "launchImageLibraryAsync"
      [] type = "pickFile" -> "getDocumentAsync"
      [] type = "takePhoto" -> "launchCameraAsync"
      [] OTHER -> "none"

WellFormed == {m \in Msgs : msgs[m].text \in RecognizedTexts}

\* C22: every bridge message causes at most one picker invocation, the one
\* matching its type, and at most one injected response, in every interleaving
\* of messages whose pickers are pending together; a message that has been
\* handled is not handled again, and the injected responses never outnumber
\* the well-formed requests received.
C22_AtMostOneResponse ==
    /\ [](/\ \A m \in Msgs :
                /\ msgs[m].responses <= 1
                /\ msgs[m].picker \in {"none", ExpectedPicker(msgs[m].type)}
                /\ msgs[m].picker # "none" => m \in WellFormed
          /\ Len(injected) = Cardinality({m \in Msgs : msgs[m].responses = 1})
          /\ Len(injected) <= Cardinality(WellFormed))
    /\ [][/\ Len(injected') <= Len(injected) + 1
          /\ \A m \in Msgs :
                /\ msgs'[m].picker = msgs[m].picker
                /\ msgs[m].pc = "done" => msgs'[m] = msgs[m]]_vars

C22_Witness ==
    /\ Len(msgs) = 2
    /\ msgs[1].type = "pickImage"
    /\ msgs[2].type = "pickFile"
    /\ msgs[1].outcome = "answered"
    /\ msgs[2].outcome = "answered"
    /\ Len(injected) = 2
    /\ injected[1].type = "fileSelected"
    /\ injected[2].type = "imageSelected"

\* The showToast(..., 'success') calls of the router, one pair per call
SuccessToasts ==
    UNION {{<<m, i>> : i \in {k \in 1..Len(msgs[m].emitted) :
                                  msgs[m].emitted[k] = "success"}} : m \in Msgs}

\* C23: the router emits a Success toast for a request only after the
\* response has been injected into the page: in every reachable state the
\* number of Success toasts emitted by the router equals the number of
\* responses injected, also when webViewRef.current is null at the time the
\* picker returns.
C23_ToastOnlyAfterInjection ==
    /\ Cardinality(SuccessToasts) = Len(injected)
    /\ \A m \in Msgs : Len(msgs[m].emitted) = msgs[m].responses

DisarmTimers == {t \in timers : t.kind = "disarm"}

\* C24: a back-press in Idle moves the machine to Armed, shows the Info toast
\* 'Press back again to exit' and leaves a disarm timer scheduled for the
\* 2-second window; and every back-press, in Idle or in Armed, returns true.
C24_ArmOnFirstPress ==
    [][BackPress =>
        /\ handled' = "true"
        /\ backPressCount = 0 =>
              /\ backPressCount' = 1
              /\ toast' = ToastOf("Press back again to exit", "info")
              /\ \E t \in timers' : t.kind = "disarm" /\ t.left = Window]_vars

\* C25: the disarm timer is a single owned resource: at most one is pending,
\* one is pending exactly while the machine is Armed, and none is pending
\* (so none can fire) after the second press has triggered the exit or while
\* the machine is Idle.
C25_SingleOwnedTimer ==
    /\ Cardinality(DisarmTimers) <= 1
    /\ backPressCount = 1 <=> DisarmTimers # {}
    /\ exitCalls > 0 => DisarmTimers = {}

\* C26: at every moment the toast state holds the message and severity of
\* the most recent showToast call or is hidden: the message of an earlier call
\* is never displayed again after a later call, and no request waits to be
\* displayed later.
C26_LastWriteWins ==
    toast = HiddenToast \/ toast = ToastOf(lastShow.message, lastShow.type)

C26_Witness ==
    /\ toast = ToastOf("Ready to use CSMS", "success")
    /\ \E t \in timers : t.kind = "hideToast" /\ t.left < lastShow.left
    /\ jobs # <<>>

\* The durations showToast is called with
Durations == {DefaultDuration, BackToastDuration, ReadyDuration}

\* C30: after the last showToast call of any sequence of calls the toast is
\* hidden no later than that call's duration after it was shown, and it stays
\* hidden until the next showToast call: a toast is never left visible forever.
C30_ToastAlwaysHides ==
    /\ [](toast.visible =>
            /\ \E t \in timers : t.kind = "hideToast" /\ t.left <= lastShow.left
            /\ lastShow.left > 0 \/ Due("hideToast") # {})
    /\ [][(~toast.visible /\ toast'.visible) =>
            /\ toast' = ToastOf(lastShow'.message, lastShow'.type)
            /\ lastShow'.left \in Durations
            /\ \E t \in timers' : t.kind = "hideToast" /\ t.left = lastShow'.left]_vars
    /\ toast.visible ~> ~toast.visible

C30_Witness ==
    /\ ~toast.visible
    /\ lastShow.message = "Ready to use CSMS"
    /\ lastShow.left = 0
    /\ timers = {}
    /\ jobs # <<>>
    /\ ~AnyInFlight

\* C27: in revision 2 the interceptor's only side effect is starting a
\* download, and it starts one exactly when it returns false: a call that
\* returns true starts no download and changes no state, and a call that
\* returns false starts exactly one download, with the URL of the request,
\* and opens nothing externally.
C27_OnlyEffectIsDownload ==
    [][(revision = 2 /\ nav' # nav) =>
        /\ UNCHANGED <<envVars, overlayVars, form, bridgeVars, perm, backVars>>
        /\ nav'.opened = 0
        /\ nav'.result = "true" => UNCHANGED <<dlVars, toastVars>>
        /\ nav'.result = "false" =>
              /\ Len(jobs') = Len(jobs) + 1
              /\ SubSeq(jobs', 1, Len(jobs)) = jobs
              /\ jobs'[Len(jobs')].url = nav'.url
              /\ jobs'[Len(jobs')].pc = "fetch"]_vars

C27_Witness ==
    /\ revision = 2
    /\ Answered
    /\ HasPrefix(nav.url, BlobScheme)
    /\ nav.result = "false"
    /\ Len(jobs) = 1
    /\ jobs[1].url = nav.url
    /\ downloading

\* A URL that one of the two download rules matches
DownloadRule(url) ==
    \/ HasReportPattern(url)
    \/ HasPrefix(url, BlobScheme)
    \/ HasInfix(url, DownloadMark)
    \/ HasSuffix(url, PdfExt)

\* An http or https URL outside the application origin that is no download
ExternalCase(url) ==
    /\ HasPrefix(url, HttpScheme) \/ HasPrefix(url, HttpsScheme)
    /\ ~DownloadRule(url)
    /\ ~HasPrefix(url, WEB_APP_URL)

\* C29: the two revisions of the interceptor return the same decision and
\* start the same download for every URL, except for http and https URLs
\* that match no download rule and do not start with the application origin:
\* there revision 1 returns false and opens the URL externally once, and
\* revision 2 returns true.
C29_RevisionsAgree ==
    Answered =>
        IF ExternalCase(nav.url)
        THEN /\ jobs = <<>>
             /\ revision = 1 => nav.result = "false" /\ nav.opened = 1
             /\ revision = 2 => nav.result = "true" /\ nav.opened = 0
        ELSE /\ nav.opened = 0
             /\ DownloadRule(nav.url) => nav.result = "false" /\ StartedDownload
             /\ ~DownloadRule(nav.url) => nav.result = "true" /\ jobs = <<>>

C29_Witness ==
    /\ revision = 1
    /\ Answered
    /\ ExternalCase(nav.url)
    /\ nav.result = "false"
    /\ nav.opened = 1
    /\ jobs = <<>>

\* C28: the back-press listener and its disarm timer exist only on Android:
\* on every other platform the listener never runs, the machine stays Idle,
\* exitApp is never called and no disarm timer is ever scheduled.
C28_BackHandlerAndroidOnly ==
    platform # "android" =>
        /\ handled = "none"
        /\ backPressCount = 0
        /\ backPressTimer = 0
        /\ exitCalls = 0
        /\ DisarmTimers = {}

C28_Witness ==
    /\ platform = "ios"
    /\ perm.pc = "done"
    /\ toast = ToastOf("Ready to use CSMS", "success")
    /\ handled = "none"
    /\ DisarmTimers = {}

-----------------------------------------------------------------------------
(* Cache paths of concurrent downloads *)

\* FileSystem.cacheDirectory: a directory URI of the platform, ending in '/'
cacheDirectory == <<"f","i","l","e",":","/","/","/","c","a","c","h","e","/">>

\* const downloadPath = FileSystem.cacheDirectory + filename
downloadPath(filename) == cacheDirectory \o filename

\* The local cache path of a job
localCachePath(j) == downloadPath(jobs[j].filename)

\* C31: two downloads in flight at the same time never use the same local
\* cache path: the path of a job differs from that of every other job that
\* has not yet finished.
C31_DistinctCachePaths ==
    \A i, j \in Jobs :
        (i # j /\ InFlight(i) /\ InFlight(j)) =>
            localCachePath(i) # localCachePath(j)

-----------------------------------------------------------------------------
(* Origins *)

\* The scheme prefix of an http or https URL, and <<>> for any other URL
SchemePrefix(url) ==
    IF HasPrefix(url, HttpsScheme) THEN HttpsScheme
    ELSE IF HasPrefix(url, HttpScheme) THEN HttpScheme
    ELSE <<>>

\* The authority of an http(s) URL: what follows '://' up to the first '/',
\* '?' or '#'
AuthorityOf(url) ==
    LET a     == Len(SchemePrefix(url)) + 1
        stops == {i \in a..Len(url) : url[i] \in {"/", "?", "#"}}
        e     == IF stops = {} THEN Len(url)
                 ELSE (CHOOSE i \in stops : \A k \in stops : i <= k) - 1
    IN  SubSeq(url, a, e)

\* The host of an authority: what follows the last '@' (the user
\* information), up to the ':' of a port
HostOf(url) ==
    LET au   == AuthorityOf(url)
        ats  == {i \in 1..Len(au) : au[i] = "@"}
        h    == IF ats = {} THEN au
                ELSE SubSeq(au, (CHOOSE i \in ats : \A k \in ats : i >= k) + 1,
                            Len(au))
        cols == {i \in 1..Len(h) : h[i] = ":"}
    IN  IF cols = {} THEN h
        ELSE SubSeq(h, 1, (CHOOSE i \in cols : \A k \in cols : i <= k) - 1)

\* The URL has the scheme and the host of the configured application origin
SameOrigin(url) ==
    /\ SchemePrefix(url) = SchemePrefix(WEB_APP_URL)
    /\ HostOf(url) = HostOf(WEB_APP_URL)

\* C32: in revision 1, which hands external links to the device browser, an
\* http or https URL is allowed to load inside the WebView only if its scheme
\* and host equal those of the configured application origin; a URL on another
\* host whose text merely starts with the origin string, and that matches no
\* download rule, is answered with false and opened externally once.
C32_OriginNotPrefix ==
    (Answered /\ revision = 1 /\ SchemePrefix(nav.url) # <<>>) =>
        /\ nav.result = "true" => SameOrigin(nav.url)
        /\ (/\ HasPrefix(nav.url, WEB_APP_URL)
            /\ ~SameOrigin(nav.url)
            /\ ~DownloadRule(nav.url))
               => nav.result = "false" /\ nav.opened = 1 /\ jobs = <<>>

-----------------------------------------------------------------------------
(* Loading and error overlays of the WebView *)

\* onLoadStart={() => setLoading(true)}: the mounted WebView starts a load
onLoadStart ==
    /\ Running
    /\ webViewRef
    /\ loading' = TRUE
    /\ UNCHANGED <<envVars, error, form, bridgeVars, perm, toastVars, backVars, dlVars,
                   nav>>

\* Mutant: the end of a load also clears the error flag
onLoadEndClearingError ==
    /\ Running
    /\ webViewRef
    /\ loading' = FALSE
    /\ error' = FALSE
    /\ UNCHANGED <<envVars, form, bridgeVars, perm, toastVars, backVars, dlVars,
                   nav>>

\* onLoadEnd={() => setLoading(false)}: a load of the WebView ends
onLoadEnd ==
    /\ Running
    /\ webViewRef
    /\ loading' = FALSE
    /\ UNCHANGED <<envVars, error, form, bridgeVars, perm, toastVars, backVars, dlVars,
                   nav>>

\* onError={() => { setLoading(false); setError(true); }}: a load fails
onError ==
    /\ Running
    /\ webViewRef
    /\ loading' = FALSE
    /\ error' = TRUE
    /\ UNCHANGED <<envVars, form, bridgeVars, perm, toastVars, backVars, dlVars,
                   nav>>

\* The mounted shell with the load events of its WebView, which the native
\* side delivers in any order and any number of times
NextLoad ==
    \/ onLoadStart
    \/ onLoadEnd
    \/ onError
    \/ NextMount

SpecLoad == InitMount /\ [][NextLoad]_vars

\* C33: a load-error event sets loading to false and error to true; load-start
\* sets loading to true and load-end sets it to false, both without touching
\* error; hence the error flag is monotonic: once true it stays true in every
\* later state, also after a later load that starts and ends.
C33_ErrorMonotonic ==
    [][/\ onError => (~loading' /\ error')
       /\ onLoadStart => (loading' /\ error' = error)
       /\ onLoadEnd => (~loading' /\ error' = error)
       /\ error => error']_vars

\* The error flag is still set while a load that started after the failed one
\* is in progress
C33_Witness ==
    /\ error
    /\ loading
    /\ perm.pc = "done"

-----------------------------------------------------------------------------
(* The project form (src/frontend/screens/ProjectFormScreen.js) *)

\* The longest project name typed into the form
MaxName == 2

\* The most createProject requests one visit of the form makes
MaxSaves == 2

\* The white space String.prototype.trim removes
WhiteSpace == {" ", "\t", "\n"}

\* The texts of the name field
Names == UNION {[1..n -> {" ", "a"}] : n \in 0..MaxName}

\* Mutant: trim that removes nothing
trimNothing(s) == s

\* String.prototype.trim: the text without its leading and trailing white space
RECURSIVE trim(_)
trim(s) ==
    IF s = <<>> THEN s
    ELSE IF Head(s) \in WhiteSpace THEN trim(Tail(s))
    ELSE IF s[Len(s)] \in WhiteSpace THEN trim(SubSeq(s, 1, Len(s) - 1))
    ELSE s

\* The form is on screen and no Alert dialog covers it
FormOpen == form.back = "none" /\ form.alert = "none"

\* handleChange('name', v): the name field is edited
handleChange(v) ==
    /\ FormOpen
    /\ form' = [form EXCEPT !.name = v]
    /\ UNCHANGED <<envVars, overlayVars, bridgeVars, perm, toastVars, backVars,
                   dlVars, nav>>

\* handleSave up to its await: the Save button (disabled while loading) is
\* pressed.  A blank name shows the validation Alert and returns; otherwise
\* setLoading(true) and createProject(formData) is called.
handleSave ==
    /\ FormOpen
    /\ ~form.loading
    /\ IF trim(form.name) = <<>>
       THEN form' = [form EXCEPT !.alert = "validation"]
       ELSE /\ form.requests < MaxSaves
            /\ form' = [form EXCEPT !.loading = TRUE, !.pc = "request",
                                    !.requests = @ + 1, !.sent = form.name]
    /\ UNCHANGED <<envVars, overlayVars, bridgeVars, perm, toastVars, backVars,
                   dlVars, nav>>

\* createProject settles: the success Alert with its OK button, or the catch
\* block's error Alert; then the finally block's setLoading(false)
createProjectDone(r) ==
    /\ form.pc = "request"
    /\ form' = [form EXCEPT !.pc = "idle",
                            !.alert = IF r = "ok" THEN "success" ELSE "error",
                            !.loading = FALSE]
    /\ UNCHANGED <<envVars, overlayVars, bridgeVars, perm, toastVars, backVars,
                   dlVars, nav>>

\* The button of the open Alert is pressed; the OK of the success Alert calls
\* navigation.goBack()
AlertOK ==
    /\ form.alert # "none"
    /\ form' = [form EXCEPT !.alert = "none",
                            !.back = IF form.alert = "success" THEN "ok" ELSE @]
    /\ UNCHANGED <<envVars, overlayVars, bridgeVars, perm, toastVars, backVars,
                   dlVars, nav>>

\* handleCancel: the Cancel button (disabled while loading) calls goBack()
handleCancel ==
    /\ FormOpen
    /\ ~form.loading
    /\ form' = [form EXCEPT !.back = "cancel"]
    /\ UNCHANGED <<envVars, overlayVars, bridgeVars, perm, toastVars, backVars,
                   dlVars, nav>>

NameEdited == \E v \in Names : handleChange(v)

ProjectSettled == \E r \in {"ok", "throw"} : createProjectDone(r)

\* One visit of the project form
InitForm ==
    /\ Init
    /\ revision = 2
    /\ batchedUpdates
    /\ platform = "android"

NextForm ==
    \/ NameEdited
    \/ handleSave
    \/ ProjectSettled
    \/ AlertOK
    \/ handleCancel

SpecForm == InitForm /\ [][NextForm]_vars

\* A name that is empty or holds white space only
Blank(name) == \A i \in 1..Len(name) : name[i] \in WhiteSpace

\* C34: handleSave with a name that is empty or only white space makes no
\* createProject request and leaves the loading flag false; with a non-blank
\* name it sets loading to true with the request, and loading is false again
\* once the request has settled, on the success and on the failure path; the
\* save navigates back only from the acknowledged Alert of a successful
\* creation.
C34_SaveGuardsAndResets ==
    /\ [](form.loading <=> form.pc = "request")
    /\ [](form.requests > 0 => ~Blank(form.sent))
    /\ [][handleSave =>
            IF Blank(form.name)
            THEN /\ form'.requests = form.requests
                 /\ ~form'.loading
                 /\ form'.back = form.back
            ELSE /\ form'.requests = form.requests + 1
                 /\ form'.sent = form.name
                 /\ form'.loading]_vars
    /\ [][\A r \in {"ok", "throw"} :
            createProjectDone(r) =>
                /\ ~form'.loading
                /\ form'.alert = (IF r = "ok" THEN "success" ELSE "error")
                /\ form'.back = form.back]_vars
    /\ [][(form'.back = "ok" /\ form.back # "ok") => form.alert = "success"]_vars

\* A second save, of a name with leading white space, succeeded after a first
\* one failed, and its Alert was acknowledged
C34_Witness ==
    /\ form.back = "ok"
    /\ form.requests = 2
    /\ form.sent = <<" ", "a">>
    /\ ~form.loading

====
